---- MODULE Spec2Model ----
(***************************************************************************)
(* A model of the Spyfall game orchestrator (src/src/green/game_env.py):   *)
(* the SpyfallEnv object, its play_game control flow, the action protocol  *)
(* (extract_json_from_response, parse_action) and the vote resolver.       *)
(*                                                                         *)
(* Texts (messenger replies) are sequences of tokens; a token is a record  *)
(* [k, v] where k is the token class and v its spelling.  Python strings   *)
(* that the program compares (names, locations) are TLA+ strings.          *)
(***************************************************************************)
EXTENDS Integers, Sequences, FiniteSets, TLC

VARIABLES
    request,         \* the EvalRequest Agent.run was given (NoRequest without one)
    participants,    \* self.participants: the names, in dict insertion order
    location,        \* self.location
    max_rounds,      \* self.max_rounds
    round,           \* self.round
    game_over,       \* self.game_over
    spy_win,         \* self.spy_win
    assigned_roles,  \* self.assigned_roles: [name, role] entries in key order
    pc,              \* where the control thread of run_single_game/play_game is
    idx,             \* position of the current for-loop (1-based)
    answer,          \* the local `answer` of _handle_action
    action,          \* the local `action` of _process_*_action / _handle_action
    votes,           \* the local `votes` of _collect_votes: [name, count] entries
    tasks,           \* _broadcast: recipients whose delivery is still in flight
    bcast,           \* _broadcast: the message being broadcast and its caller
    game_result,     \* the value play_game returns (NoResult before it returns)
    error,           \* the exception that left play_game / assign_roles, if any
    last_call,       \* observer: the most recent messenger call
    sent,            \* observer: messenger calls of the current turn or phase, per kind
    offered,         \* observer: action prompts sent so far, per participant
    iterations       \* observer: completed iterations of play_game's while loop

vars == <<request, participants, location, max_rounds, round, game_over, spy_win,
          assigned_roles, pc, idx, answer, action, votes, tasks, bcast,
          game_result, error, last_call, sent, offered, iterations>>

----------------------------------------------------------------------------
(* Bounds of the model.                                                    *)

MaxPlayers == 3
MaxRounds == 3

(* Names available for registration, in the order they are registered.     *)
Registry == <<"Alice", "Bob", "Carol", "Dave", "Eve">>

(* A name no game registers.                                               *)
Stranger == "Mallory"

(* Two of the entries of all_locations.                                    *)
all_locations == {"Airplane", "Beach"}

Min(S) == CHOOSE x \in S : \A y \in S : x <= y
Max(S) == CHOOSE x \in S : \A y \in S : x >= y

Range(s) == {s[i] : i \in 1..Len(s)}

----------------------------------------------------------------------------
(* Texts.                                                                  *)

Ws == [k |-> "ws", v |-> " "]
Nl == [k |-> "nl", v |-> "\n"]
(* A line of three backticks, the code-fence marker, as one token.         *)
Fence == [k |-> "fence", v |-> "fence"]
Word(w) == [k |-> "word", v |-> w]
Str(s) == [k |-> "str", v |-> s]
Num(n) == [k |-> "num", v |-> n]
Punct(p) == [k |-> "punct", v |-> p]

(* The text of a Python string without spaces, such as a name.             *)
Text(s) == <<Word(s)>>

IsSpace(t) == t.k \in {"ws", "nl"}

(* str.strip()                                                             *)
Strip(text) ==
    LET keep == {i \in 1..Len(text) : ~IsSpace(text[i])}
    IN  IF keep = {} THEN <<>> ELSE SubSeq(text, Min(keep), Max(keep))

(* str.lower() on the strings the model uses.                              *)
Lower(s) ==
    CASE s = "Airplane" -> "airplane"
      [] s = "AIRPLANE" -> "airplane"
      [] s = "Beach" -> "beach"
      [] s = "BEACH" -> "beach"
      [] OTHER -> s

(* str.find of a newline: the first newline's position, 0 when there is none      *)
(* (Python's -1; positions here are 1-based).                              *)
FindNewline(text) ==
    LET at == {i \in 1..Len(text) : text[i] = Nl}
    IN  IF at = {} THEN 0 ELSE Min(at)

StartsWithFence(text) == Len(text) >= 1 /\ text[1] = Fence
EndsWithFence(text) == Len(text) >= 1 /\ text[Len(text)] = Fence

(* An extraction that only strips the surrounding whitespace.              *)
extract_json_from_response_strip(resp) == Strip(resp)

(* extract_json_from_response                                              *)
extract_json_from_response(resp) ==
    LET text == Strip(resp)
        first_newline == FindNewline(text)
        t1 == IF first_newline # 0
              THEN SubSeq(text, first_newline + 1, Len(text))
              ELSE text
        t2 == IF EndsWithFence(t1) THEN SubSeq(t1, 1, Len(t1) - 1) ELSE t1
    IN  IF StartsWithFence(text) THEN Strip(t2) ELSE Strip(text)

----------------------------------------------------------------------------
(* JSON.  A decoded value is [t, d]: t is the Python type of the value     *)
(* ("dict", "list", "scalar") or "error" for a JSONDecodeError; d is the   *)
(* dict's content at the keys the program reads, a function from Keys to   *)
(* field values [ty, v], with ty = "absent" for a key the dict lacks.      *)

Keys == {"action", "target", "question", "location_guess"}

Absent == [ty |-> "absent", v |-> ""]
EmptyDict == [key \in Keys |-> Absent]

LBrace == Punct("{")
RBrace == Punct("}")
LBracket == Punct("[")
RBracket == Punct("]")
Colon == Punct(":")
Comma == Punct(",")

IsScalarTok(x) ==
    \/ x.k \in {"str", "num"}
    \/ x.k = "word" /\ x.v \in {"null", "true", "false"}

ScalarValue(x) ==
    IF x.k = "str" THEN [ty |-> "str", v |-> x.v]
    ELSE IF x.k = "num" THEN [ty |-> "num", v |-> x.v]
    ELSE [ty |-> "literal", v |-> x.v]

(* key : scalar pairs separated by commas                                  *)
IsMembers(s) ==
    \/ Len(s) = 0
    \/ /\ Len(s) % 4 = 3
       /\ \A i \in 1..Len(s) :
            CASE i % 4 = 1 -> s[i].k = "str"
              [] i % 4 = 2 -> s[i] = Colon
              [] i % 4 = 3 -> IsScalarTok(s[i])
              [] OTHER -> s[i] = Comma

(* scalars separated by commas                                             *)
IsElements(s) ==
    \/ Len(s) = 0
    \/ /\ Len(s) % 2 = 1
       /\ \A i \in 1..Len(s) :
            IF i % 2 = 1 THEN IsScalarTok(s[i]) ELSE s[i] = Comma

(* The dict of a member list: a repeated key keeps its last value.         *)
MembersDict(s) ==
    [key \in Keys |->
        LET at == {i \in 1..Len(s) : i % 4 = 1 /\ s[i].v = key}
        IN  IF at = {} THEN Absent ELSE ScalarValue(s[Max(at) + 2])]

(* json.loads                                                              *)
json_loads(text) ==
    LET t == SelectSeq(text, LAMBDA x : ~IsSpace(x))
        inner == SubSeq(t, 2, Len(t) - 1)
    IN  IF Len(t) = 1 /\ IsScalarTok(t[1])
        THEN [t |-> "scalar", d |-> EmptyDict]
        ELSE IF Len(t) >= 2 /\ t[1] = LBracket /\ t[Len(t)] = RBracket
                /\ IsElements(inner)
        THEN [t |-> "list", d |-> EmptyDict]
        ELSE IF Len(t) >= 2 /\ t[1] = LBrace /\ t[Len(t)] = RBrace
                /\ IsMembers(inner)
        THEN [t |-> "dict", d |-> MembersDict(inner)]
        ELSE [t |-> "error", d |-> EmptyDict]

(* json.dumps of a dict, keys in the order given.                          *)
RECURSIVE DumpMembers(_, _)
DumpMembers(d, keys) ==
    IF keys = <<>> THEN <<>>
    ELSE LET key == Head(keys)
             val == IF d[key].ty = "str" THEN Str(d[key].v)
                    ELSE IF d[key].ty = "num" THEN Num(d[key].v)
                    ELSE Word(d[key].v)
             sep == IF Len(keys) > 1 THEN <<Comma, Ws>> ELSE <<>>
         IN  <<Str(key), Colon, Ws, val>> \o sep \o DumpMembers(d, Tail(keys))

json_dumps(d, keys) == <<LBrace>> \o DumpMembers(d, keys) \o <<RBrace>>

----------------------------------------------------------------------------
(* The action protocol.                                                    *)

StrV(s) == [ty |-> "str", v |-> s]

(* AskQuestionAction.model_validate: the tag is the literal and both       *)
(* fields are strings (of any length).                                     *)
AskQuestionAction_validate(d) ==
    /\ d["action"] = StrV("ask_question")
    /\ d["target"].ty = "str"
    /\ d["question"].ty = "str"

(* GuessLocationAction.model_validate                                      *)
GuessLocationAction_validate(d) ==
    /\ d["action"] = StrV("guess_location")
    /\ d["location_guess"].ty = "str"

ParsedNone == [outcome |-> "None", action |-> EmptyDict]
ParsedRaise == [outcome |-> "AttributeError", action |-> EmptyDict]
ParsedDict(d) == [outcome |-> "dict", action |-> d]

(* The spy branch of parse_action, for a value json.loads returned: a      *)
(* value that is no dict has no .get, and AttributeError is not caught.    *)
parse_spy(obj) ==
    IF obj.t # "dict" THEN ParsedRaise
    ELSE IF obj.d["action"] = StrV("ask_question")
    THEN (IF AskQuestionAction_validate(obj.d)
          THEN ParsedDict(obj.d) ELSE ParsedNone)
    ELSE IF obj.d["action"] = StrV("guess_location")
    THEN (IF GuessLocationAction_validate(obj.d)
          THEN ParsedDict(obj.d) ELSE ParsedNone)
    ELSE ParsedNone

(* A non-spy branch that validates against either action model.           *)
parse_non_spy_either(obj) ==
    IF obj.t = "dict"
       /\ (AskQuestionAction_validate(obj.d) \/ GuessLocationAction_validate(obj.d))
    THEN ParsedDict(obj.d)
    ELSE ParsedNone

(* The non-spy branch: NonSpyAction.model_validate on whatever was         *)
(* decoded; a ValidationError (also for a non-dict) is caught.             *)
parse_non_spy(obj) ==
    IF obj.t = "dict" /\ AskQuestionAction_validate(obj.d)
    THEN ParsedDict(obj.d)
    ELSE ParsedNone

(* A parse_action that validates every reply as the spy's.                 *)
parse_action_any_role(resp, is_spy) ==
    LET json_str == extract_json_from_response(resp)
        action_dict == json_loads(json_str)
    IN  IF action_dict.t = "error" THEN ParsedNone
        ELSE parse_spy(action_dict)

(* parse_action                                                            *)
parse_action(resp, is_spy) ==
    LET json_str == extract_json_from_response(resp)
        action_dict == json_loads(json_str)
    IN  IF action_dict.t = "error" THEN ParsedNone
        ELSE IF is_spy THEN parse_spy(action_dict)
        ELSE parse_non_spy(action_dict)

----------------------------------------------------------------------------
(* Helpers of SpyfallEnv.  A Python dict is a sequence of entries in       *)
(* insertion order.                                                        *)

None == "<None>"

NamesOf(entries) == [i \in 1..Len(entries) |-> entries[i].name]

(* assign_roles with the test of the name negated.                         *)
assign_roles_negated(parts, spy_participant) ==
    [i \in 1..Len(parts) |->
        [name |-> parts[i],
         role |-> IF parts[i] # spy_participant THEN "spy" ELSE "non-spy"]]

(* assign_roles, for the participant random.choice returned.               *)
assign_roles(parts, spy_participant) ==
    [i \in 1..Len(parts) |->
        [name |-> parts[i],
         role |-> IF parts[i] = spy_participant THEN "spy" ELSE "non-spy"]]

_get_spy(roles) ==
    roles[Min({i \in 1..Len(roles) : roles[i].role = "spy"})].name

(* A voter list that keeps the spy.                                        *)
_get_non_spies_all(roles) == NamesOf(roles)

_get_non_spies(roles) ==
    NamesOf(SelectSeq(roles, LAMBDA e : e.role = "non-spy"))

_get_other_players(parts, exclude_name) ==
    SelectSeq(parts, LAMBDA n : n # exclude_name)

(* _build_game_result; a tally that is None is [is_none |-> TRUE].         *)
NoTally == [is_none |-> TRUE, tally |-> <<>>]
SomeTally(t) == [is_none |-> FALSE, tally |-> t]

_build_game_result(winner, spy_player, parts, end_method, msg, accused, tally) ==
    [winner |-> winner,
     winner_role |-> IF winner = "spy" THEN "spy" ELSE "non-spy",
     participants |-> parts,
     end_method |-> end_method,
     spy |-> spy_player,
     voted_as_spy |-> accused,
     votes |-> tally,
     result |-> msg]

NoResult == _build_game_result(None, None, <<>>, None, None, None, NoTally)

(* A tally seeded for the choices of the voters only.                      *)
ZeroVotes_choices(parts) ==
    [i \in 1..(Len(parts) - 1) |-> [name |-> parts[i + 1], count |-> 0]]

(* The tally _collect_votes starts from.                                   *)
ZeroVotes(parts) == [i \in 1..Len(parts) |-> [name |-> parts[i], count |-> 0]]

(* votes[vote] += 1                                                        *)
CountVote(tally, vote) ==
    [i \in 1..Len(tally) |->
        IF tally[i].name = vote
        THEN [tally[i] EXCEPT !.count = @ + 1]
        ELSE tally[i]]

(* A vote read without response.strip().                                   *)
VoteOf_nostrip(reply, parts) ==
    IF \E n \in Range(parts) : reply = Text(n)
    THEN (CHOOSE n \in Range(parts) : reply = Text(n))
    ELSE None

(* The reply of a voter names a participant: vote in self.participants.    *)
VoteOf(reply, parts) ==
    LET vote == Strip(reply)
    IN  IF \E n \in Range(parts) : vote = Text(n)
        THEN (CHOOSE n \in Range(parts) : vote = Text(n))
        ELSE None

(* max(votes.values()) and players_with_max_votes[0]                       *)
max_votes(tally) ==
    IF Len(tally) = 0 THEN 0 ELSE Max({tally[i].count : i \in 1..Len(tally)})

(* A list of the most voted that asks for a vote at least.                 *)
players_with_max_votes_voted(tally) ==
    NamesOf(SelectSeq(tally, LAMBDA e : e.count = max_votes(tally) /\ e.count > 0))

players_with_max_votes(tally) ==
    NamesOf(SelectSeq(tally, LAMBDA e : e.count = max_votes(tally)))

(* A resolver that takes the last of the tied participants.                *)
voted_as_spy_of_last(tally) ==
    IF players_with_max_votes(tally) = <<>> THEN None
    ELSE players_with_max_votes(tally)[Len(players_with_max_votes(tally))]

voted_as_spy_of(tally) ==
    IF players_with_max_votes(tally) = <<>> THEN None
    ELSE players_with_max_votes(tally)[1]

(* The guess test without .lower().                                        *)
GuessIsCorrect_exact(location_guess, loc) == location_guess = loc

(* The guess test of _handle_action.                                       *)
GuessIsCorrect(location_guess, loc) == Lower(location_guess) = Lower(loc)

----------------------------------------------------------------------------
(* The messenger (messenger.py is not among the sources): a call returns   *)
(* a reply text or raises.  The replies the model draws from:              *)

(* Payloads of replies to an action prompt.                                *)
AskDict(target, question) ==
    [EmptyDict EXCEPT !["action"] = StrV("ask_question"),
                      !["target"] = StrV(target),
                      !["question"] = StrV(question)]

GuessDict(location_guess) ==
    [EmptyDict EXCEPT !["action"] = StrV("guess_location"),
                      !["location_guess"] = StrV(location_guess)]

AskKeys == <<"action", "target", "question">>
GuessKeys == <<"action", "location_guess">>

Questions == {"Is it outdoors?", ""}

AskPayloads(parts) ==
    {json_dumps(AskDict(t, q), AskKeys) :
        t \in Range(parts) \cup {Stranger, ""}, q \in Questions}

GuessPayloads ==
    {json_dumps(GuessDict(g), GuessKeys) :
        g \in all_locations \cup {Lower(l) : l \in all_locations} \cup {""}}

(* Objects that are no valid action.                                       *)
BadObjectPayloads ==
    { json_dumps([EmptyDict EXCEPT !["action"] = StrV("vote")], <<"action">>),
      json_dumps(EmptyDict, <<>>),
      json_dumps([AskDict("Alice", "") EXCEPT !["target"] = [ty |-> "num", v |-> "7"]],
                 AskKeys),
      json_dumps(AskDict("Alice", ""), <<"action", "target">>),
      json_dumps(GuessDict(""), <<"action">>),
      json_dumps([GuessDict("") EXCEPT
                    !["location_guess"] = [ty |-> "literal", v |-> "null"]],
                 GuessKeys) }

(* JSON values that are no object.                                         *)
NonObjectPayloads ==
    { <<LBracket, RBracket>>, <<Num("7")>>, <<Str("Airplane")>>, <<Word("null")>> }

(* Texts that are no JSON.                                                 *)
MalformedPayloads ==
    { <<>>, <<LBrace>>, <<Word("hello")>>,
      <<LBrace, Str("action"), Colon, RBrace>> }

Bare(x) == x
Padded(x) == <<Ws>> \o x \o <<Nl>>
Fenced(x) == <<Fence, Nl>> \o x \o <<Nl, Fence>>
FencedJson(x) == <<Fence, Word("json"), Nl>> \o x \o <<Nl, Fence>>

ActionReplies(parts) ==
    LET payloads == AskPayloads(parts) \cup GuessPayloads \cup BadObjectPayloads
                      \cup NonObjectPayloads \cup MalformedPayloads
    IN  payloads \cup {FencedJson(x) : x \in payloads}

InitReplies ==
    { <<Word("OK")>>, json_dumps(GuessDict("Airplane"), GuessKeys) }

AnswerReplies == { <<Word("Yes")>>, <<>> }

VoteReplies(parts) ==
    {Text(n) : n \in Range(parts)}
      \cup {Padded(Text(n)) : n \in Range(parts)}
      \cup { Text(Stranger), Text("alice"), <<>>,
             <<Word("Alice"), Ws, Word("Bob")>> }

----------------------------------------------------------------------------
(* The state after SpyfallEnv(participants, location, max_rounds).         *)

Rosters ==
    {SubSeq(Registry, 1, n) : n \in 0..MaxPlayers} \cup {<<"Bob", "Alice">>}

NoCall == [kind |-> "none", to |-> None, new_conversation |-> FALSE,
           metadata |-> None, prompt |-> None, raised |-> FALSE, reply |-> <<>>]

Kinds == {"init", "action", "answer", "broadcast", "vote"}

NothingSent == [k \in Kinds |-> 0]

Idle == [msg |-> None, caller |-> None, failed |-> {}]

(* No request: the SpyfallEnv is constructed directly.                     *)
NoRequest ==
    [parsed |-> FALSE, participants |-> <<>>, keys |-> {},
     location |-> None, num_rounds |-> 0]

Init ==
    /\ request = NoRequest
    /\ participants \in Rosters
    /\ location \in all_locations
    /\ max_rounds \in 1..MaxRounds
    /\ round = 0
    /\ game_over = FALSE
    /\ spy_win = FALSE
    /\ assigned_roles = <<>>
    /\ pc = "constructed"
    /\ idx = 0
    /\ answer = <<>>
    /\ action = EmptyDict
    /\ votes = <<>>
    /\ tasks = {}
    /\ bcast = Idle
    /\ game_result = NoResult
    /\ error = None
    /\ last_call = NoCall
    /\ sent = NothingSent
    /\ offered = [n \in Range(participants) |-> 0]
    /\ iterations = 0

----------------------------------------------------------------------------
(* Prompts, by what they tell the recipient.                               *)

RoleOf(name) ==
    assigned_roles[CHOOSE i \in 1..Len(assigned_roles) :
                     assigned_roles[i].name = name].role

(* An initialization prompt for the spy that names the location.           *)
_build_spy_init_prompt_with_location(player_name) ==
    [kind |-> "spy_init",
     other_players |-> _get_other_players(participants, player_name),
     location |-> location,
     max_rounds |-> max_rounds]

_build_spy_init_prompt(player_name) ==
    [kind |-> "spy_init",
     other_players |-> _get_other_players(participants, player_name),
     location |-> None,
     max_rounds |-> max_rounds]

_build_non_spy_init_prompt(player_name) ==
    [kind |-> "non_spy_init",
     other_players |-> _get_other_players(participants, player_name),
     location |-> location,
     max_rounds |-> max_rounds]

_build_spy_action_prompt ==
    [kind |-> "spy_action", schema |-> {"ask_question", "guess_location"}]

_build_non_spy_action_prompt ==
    [kind |-> "non_spy_action", schema |-> {"ask_question"}]

AnswerPrompt(asker, question) ==
    [kind |-> "answer", asker |-> asker, question |-> question]

VotePrompt ==
    [kind |-> "vote",
     choices |-> _get_other_players(participants, _get_spy(assigned_roles))]

(* messenger.talk_to_agent(prompt, url, new_conversation, metadata)        *)
Call(kind, to, new_conversation, metadata, prompt) ==
    [kind |-> kind, to |-> to, new_conversation |-> new_conversation,
     metadata |-> metadata, prompt |-> prompt, raised |-> FALSE, reply |-> <<>>]

Turn == assigned_roles[idx].name

(* The head of the for loop of _run_action_round without its break.        *)
AtActionCall_nobreak == pc = "round" /\ idx <= Len(assigned_roles)

(* The point-to-point call the control thread is about to issue.           *)
AtInitCall == pc = "init" /\ idx <= Len(assigned_roles)
AtActionCall == pc = "round" /\ idx <= Len(assigned_roles) /\ ~game_over
AtAnswerCall == pc = "answer"
AtVoteCall == pc = "vote" /\ idx <= Len(_get_non_spies(assigned_roles))

CurrentCall ==
    IF AtInitCall
    THEN Call("init", Turn, TRUE, None,
              IF RoleOf(Turn) = "spy"
              THEN _build_spy_init_prompt(Turn)
              ELSE _build_non_spy_init_prompt(Turn))
    ELSE IF AtActionCall
    THEN Call("action", Turn, FALSE, None,
              IF RoleOf(Turn) = "spy"
              THEN _build_spy_action_prompt
              ELSE _build_non_spy_action_prompt)
    ELSE IF AtAnswerCall
    THEN Call("answer", action["target"].v, FALSE, None,
              AnswerPrompt(Turn, action["question"].v))
    ELSE Call("vote", _get_non_spies(assigned_roles)[idx], FALSE, None, VotePrompt)

(* The observers of a call: an action prompt opens a new turn.             *)
Observe(call) ==
    /\ last_call' = call
    /\ sent' = IF call.kind = "action"
               THEN [NothingSent EXCEPT !["action"] = 1]
               ELSE [sent EXCEPT ![call.kind] = @ + 1]
    /\ offered' = IF call.kind = "action"
                  THEN [offered EXCEPT ![call.to] = @ + 1]
                  ELSE offered

Issue(call, reply) == Observe([call EXCEPT !.reply = reply])

----------------------------------------------------------------------------
(* Steps of the control thread.  What a step computes is a record of the   *)
(* new values of the fields and locals it may write.                       *)

Stay ==
    [pc |-> pc, idx |-> idx, action |-> action, game_over |-> game_over,
     spy_win |-> spy_win, tasks |-> tasks, bcast |-> bcast, error |-> error]

Apply(u) ==
    /\ pc' = u.pc
    /\ idx' = u.idx
    /\ action' = u.action
    /\ game_over' = u.game_over
    /\ spy_win' = u.spy_win
    /\ tasks' = u.tasks
    /\ bcast' = u.bcast
    /\ error' = u.error

(* A turn that ends by clearing game_over.                                 *)
TurnOver_reset ==
    [Stay EXCEPT !.pc = "round", !.idx = idx + 1, !.action = EmptyDict,
                 !.game_over = FALSE]

(* A turn that ends with the same participant to be prompted again.        *)
TurnOver_retry == [Stay EXCEPT !.pc = "round", !.action = EmptyDict]

(* _process_*_action returns: the for loop of _run_action_round moves on.  *)
TurnOver == [Stay EXCEPT !.pc = "round", !.idx = idx + 1, !.action = EmptyDict]

(* A broadcast that leaves out the first participant.                      *)
StartBroadcast_skipfirst(u, msg, caller) ==
    [u EXCEPT !.pc = "broadcast",
              !.tasks = Range(participants) \ {participants[1]},
              !.bcast = [msg |-> msg, caller |-> caller, failed |-> {}]]

(* A broadcast that is started and not awaited: the turn goes on with the  *)
(* deliveries in flight.                                                   *)
StartBroadcast_nowait(u, msg, caller) ==
    [u EXCEPT !.pc = "round",
              !.idx = idx + 1,
              !.tasks = Range(participants),
              !.bcast = [msg |-> msg, caller |-> caller, failed |-> {}]]

(* _broadcast creates one delivery per participant and awaits them all.    *)
StartBroadcast(u, msg, caller) ==
    [u EXCEPT !.pc = "broadcast",
              !.tasks = Range(participants),
              !.bcast = [msg |-> msg, caller |-> caller, failed |-> {}]]

(* A guess branch in which a wrong guess costs only the turn.              *)
HandleGuess_wrongcontinues(actor, d) ==
    IF GuessIsCorrect(d["location_guess"].v, location)
    THEN StartBroadcast([Stay EXCEPT !.action = d, !.game_over = TRUE, !.spy_win = TRUE],
                        [kind |-> "guess_correct", actor |-> actor,
                         guess |-> d["location_guess"].v],
                        "guess")
    ELSE TurnOver

(* _handle_action, guess_location branch                                   *)
HandleGuess(actor, d) ==
    IF GuessIsCorrect(d["location_guess"].v, location)
    THEN StartBroadcast([Stay EXCEPT !.action = d, !.game_over = TRUE, !.spy_win = TRUE],
                        [kind |-> "guess_correct", actor |-> actor,
                         guess |-> d["location_guess"].v],
                        "guess")
    ELSE [TurnOver EXCEPT !.game_over = TRUE, !.spy_win = FALSE]

(* The ask_question branch without the test of the target.                 *)
HandleAsk_nocheck(actor, d) == [Stay EXCEPT !.pc = "answer", !.action = d]

(* _handle_action, ask_question branch up to the answer request            *)
HandleAsk(actor, d) ==
    IF d["target"].v \notin Range(participants)
    THEN TurnOver
    ELSE [Stay EXCEPT !.pc = "answer", !.action = d]

(* _handle_action                                                          *)
_handle_action(actor, d) ==
    IF d["action"] = StrV("ask_question") THEN HandleAsk(actor, d)
    ELSE IF d["action"] = StrV("guess_location") THEN HandleGuess(actor, d)
    ELSE TurnOver

(* _process_spy_action / _process_non_spy_action, after the reply          *)
_process_action(name, resp) ==
    LET parsed == parse_action(resp, RoleOf(name) = "spy")
    IN  IF parsed.outcome = "AttributeError"
        THEN [Stay EXCEPT !.pc = "raised", !.error = "AttributeError"]
        ELSE IF parsed.outcome = "dict"
        THEN _handle_action(name, parsed.action)
        ELSE TurnOver

----------------------------------------------------------------------------
(* Actions.                                                                *)

(* A choice that returns None for an empty list.                           *)
random_choice_or_none(parts) ==
    IF parts = <<>> THEN {None} ELSE Range(parts)

(* random.choice(list(self.participants.keys())): the values it can        *)
(* return; none for an empty list, where it raises IndexError.             *)
random_choice(parts) == Range(parts)

(* run_single_game: game_env.assign_roles(); random.choice raises          *)
(* IndexError on an empty list.                                            *)
AssignRoles ==
    /\ pc = "constructed"
    /\ IF random_choice(participants) = {}
       THEN /\ pc' = "raised"
            /\ error' = "IndexError"
            /\ UNCHANGED assigned_roles
       ELSE /\ \E spy_participant \in random_choice(participants) :
                 assigned_roles' = assign_roles(participants, spy_participant)
            /\ pc' = "while"
            /\ UNCHANGED error
    /\ UNCHANGED <<request, participants, location, max_rounds, round, game_over, spy_win,
                   idx, answer, action, votes, tasks, bcast, game_result,
                   last_call, sent, offered, iterations>>

(* play_game: the test of the while loop                                   *)
LoopContinues == round < max_rounds /\ ~game_over

(* A loop that starts with an action round.                                *)
IterationKind_noinit == "round"

(* play_game: the branch an iteration takes                                *)
IterationKind == IF round = 0 THEN "init" ELSE "round"

WhileEnter ==
    /\ pc = "while"
    /\ LoopContinues
    /\ pc' = IterationKind
    /\ idx' = 1
    /\ UNCHANGED <<request, participants, location, max_rounds, round, game_over, spy_win,
                   assigned_roles, answer, action, votes, tasks, bcast,
                   game_result, error, last_call, sent, offered, iterations>>

(* The early result with the winner's test inverted.                       *)
EarlyResult_inverted ==
    _build_game_result(IF spy_win THEN "non-spies" ELSE "spy",
                       _get_spy(assigned_roles), participants, "spy_guess",
                       [kind |-> "early", spy |-> _get_spy(assigned_roles),
                        correct |-> spy_win],
                       None, NoTally)

(* play_game: the result of a game a guess ended                           *)
EarlyResult ==
    _build_game_result(IF spy_win THEN "spy" ELSE "non-spies",
                       _get_spy(assigned_roles), participants, "spy_guess",
                       [kind |-> "early", spy |-> _get_spy(assigned_roles),
                        correct |-> spy_win],
                       None, NoTally)

(* play_game calling _end_game whatever game_over is.                      *)
VoteIsHeld_always == TRUE

(* play_game: whether the vote is held                                     *)
VoteIsHeld == ~game_over

(* play_game after the loop: _end_game (which starts _collect_votes) or    *)
(* the early result.                                                       *)
WhileExit ==
    /\ pc = "while"
    /\ ~LoopContinues
    /\ IF VoteIsHeld
       THEN /\ pc' = "vote"
            /\ idx' = 1
            /\ votes' = ZeroVotes(participants)
            /\ sent' = NothingSent
            /\ UNCHANGED game_result
       ELSE /\ pc' = "returned"
            /\ game_result' = EarlyResult
            /\ UNCHANGED <<idx, votes, sent>>
    /\ UNCHANGED <<request, participants, location, max_rounds, round, game_over, spy_win,
                   assigned_roles, answer, action, tasks, bcast, error,
                   last_call, offered, iterations>>

(* self.round += 1 at the end of an iteration of the while loop            *)
NextRound == round + 1

(* _send_initial_prompts: one initialization message; the reply is dropped *)
SendInitialPrompt(reply) ==
    /\ AtInitCall
    /\ Issue(CurrentCall, reply)
    /\ idx' = idx + 1
    /\ UNCHANGED <<request, participants, location, max_rounds, round, game_over, spy_win,
                   assigned_roles, pc, answer, action, votes, tasks, bcast,
                   game_result, error, iterations>>

(* _send_initial_prompts returns; play_game counts the round               *)
EndInitialPrompts ==
    /\ pc = "init"
    /\ idx > Len(assigned_roles)
    /\ round' = NextRound
    /\ iterations' = iterations + 1
    /\ pc' = "while"
    /\ UNCHANGED <<request, participants, location, max_rounds, game_over, spy_win,
                   assigned_roles, idx, answer, action, votes, tasks, bcast,
                   game_result, error, last_call, sent, offered>>

(* _run_action_round: one participant's turn, from the action prompt to    *)
(* the next messenger call or the end of the turn                          *)
ActionTurn(reply) ==
    /\ AtActionCall
    /\ Issue(CurrentCall, reply)
    /\ Apply(_process_action(Turn, reply))
    /\ UNCHANGED <<request, participants, location, max_rounds, round, assigned_roles,
                   answer, votes, game_result, iterations>>

(* _run_action_round returns (the list is exhausted or game_over breaks    *)
(* the loop); play_game counts the round                                   *)
EndActionRound ==
    /\ pc = "round"
    /\ ~AtActionCall
    /\ round' = NextRound
    /\ iterations' = iterations + 1
    /\ pc' = "while"
    /\ UNCHANGED <<request, participants, location, max_rounds, game_over, spy_win,
                   assigned_roles, idx, answer, action, votes, tasks, bcast,
                   game_result, error, last_call, sent, offered>>

(* answer_turn, then the broadcast of question and answer is started       *)
AnswerTurn(reply) ==
    /\ AtAnswerCall
    /\ Issue(CurrentCall, reply)
    /\ answer' = reply
    /\ Apply(StartBroadcast(Stay,
                            [kind |-> "qa", actor |-> Turn,
                             target |-> action["target"].v,
                             question |-> action["question"].v,
                             answer |-> reply],
                            "ask"))
    /\ UNCHANGED <<request, participants, location, max_rounds, round, assigned_roles,
                   votes, game_result, iterations>>

(* _broadcast: one delivery completes, with a reply or with an exception   *)
(* that gather(return_exceptions=True) keeps                               *)
Deliver(p, ok) ==
    /\ pc = "broadcast"
    /\ p \in tasks
    /\ tasks' = tasks \ {p}
    /\ bcast' = [bcast EXCEPT !.failed = IF ok THEN @ ELSE @ \cup {p}]
    /\ Observe([Call("broadcast", p, FALSE, "skip_response=True", bcast.msg)
                   EXCEPT !.raised = ~ok])
    /\ UNCHANGED <<request, participants, location, max_rounds, round, game_over, spy_win,
                   assigned_roles, pc, idx, answer, action, votes, game_result,
                   error, iterations>>

(* _end_game: the result built after the broadcast of the outcome          *)
VoteResult(msg) ==
    _build_game_result(msg.winner, msg.spy, participants, "vote", msg,
                       msg.voted_as_spy, SomeTally(votes))

(* A gather that returns at the first completed delivery.                  *)
GatherDone_first == tasks # Range(participants)

(* await asyncio.gather with return_exceptions=True returns when every     *)
(* delivery has completed.                                                 *)
GatherDone == tasks = {}

(* _broadcast returns to its caller: _handle_action (the turn is over) or  *)
(* _end_game (play_game returns the result)                                *)
GatherReturn ==
    /\ pc = "broadcast"
    /\ GatherDone
    /\ IF bcast.caller = "end_game"
       THEN /\ Apply([Stay EXCEPT !.pc = "returned", !.bcast = Idle])
            /\ game_result' = VoteResult(bcast.msg)
            /\ UNCHANGED answer
       ELSE /\ Apply([TurnOver EXCEPT !.bcast = Idle])
            /\ answer' = <<>>
            /\ UNCHANGED game_result
    /\ UNCHANGED <<request, participants, location, max_rounds, round, assigned_roles,
                   votes, last_call, sent, offered, iterations>>

(* _collect_votes: one voter's prompt and reply                            *)
VoteTurn(reply) ==
    /\ AtVoteCall
    /\ Issue(CurrentCall, reply)
    /\ votes' = IF VoteOf(reply, participants) # None
                THEN CountVote(votes, VoteOf(reply, participants))
                ELSE votes
    /\ idx' = idx + 1
    /\ UNCHANGED <<request, participants, location, max_rounds, round, game_over, spy_win,
                   assigned_roles, pc, answer, action, tasks, bcast, game_result,
                   error, iterations>>

(* The winner with the test of the accused inverted.                       *)
VoteWinner_inverted(voted_as_spy, spy_player) ==
    IF voted_as_spy # spy_player THEN "non-spies" ELSE "spy"

(* _end_game: the winner, for the accused and the spy                      *)
VoteWinner(voted_as_spy, spy_player) ==
    IF voted_as_spy = spy_player THEN "non-spies" ELSE "spy"

(* _end_game after _collect_votes returned: resolve, set spy_win, start    *)
(* the broadcast of the outcome                                            *)
EndGame ==
    /\ pc = "vote"
    /\ ~AtVoteCall
    /\ LET spy_player == _get_spy(assigned_roles)
           voted_as_spy == voted_as_spy_of(votes)
           winner == VoteWinner(voted_as_spy, spy_player)
       IN  Apply(StartBroadcast([Stay EXCEPT !.spy_win = (winner = "spy")],
                                [kind |-> "vote_result", winner |-> winner,
                                 voted_as_spy |-> voted_as_spy,
                                 spy |-> spy_player],
                                "end_game"))
    /\ UNCHANGED <<request, participants, location, max_rounds, round, assigned_roles,
                   answer, votes, game_result, last_call, sent, offered,
                   iterations>>

(* A point-to-point messenger call raises: nothing in play_game catches it *)
CallRaises ==
    /\ AtInitCall \/ AtActionCall \/ AtAnswerCall \/ AtVoteCall
    /\ Observe([CurrentCall EXCEPT !.raised = TRUE])
    /\ pc' = "raised"
    /\ error' = "TransportError"
    /\ UNCHANGED <<request, participants, location, max_rounds, round, game_over, spy_win,
                   assigned_roles, idx, answer, action, votes, tasks, bcast,
                   game_result, iterations>>

Next ==
    \/ AssignRoles
    \/ WhileEnter
    \/ WhileExit
    \/ \E reply \in InitReplies : SendInitialPrompt(reply)
    \/ EndInitialPrompts
    \/ \E reply \in ActionReplies(participants) : ActionTurn(reply)
    \/ EndActionRound
    \/ \E reply \in AnswerReplies : AnswerTurn(reply)
    \/ \E p \in tasks, ok \in BOOLEAN : Deliver(p, ok)
    \/ GatherReturn
    \/ \E reply \in VoteReplies(participants) : VoteTurn(reply)
    \/ EndGame
    \/ CallRaises

Spec == Init /\ [][Next]_vars

(* The game with a messenger none of whose calls raises.                   *)
NextReliable ==
    \/ AssignRoles
    \/ WhileEnter
    \/ WhileExit
    \/ \E reply \in InitReplies : SendInitialPrompt(reply)
    \/ EndInitialPrompts
    \/ \E reply \in ActionReplies(participants) : ActionTurn(reply)
    \/ EndActionRound
    \/ \E reply \in AnswerReplies : AnswerTurn(reply)
    \/ \E p \in tasks : Deliver(p, TRUE)
    \/ GatherReturn
    \/ \E reply \in VoteReplies(participants) : VoteTurn(reply)
    \/ EndGame

SpecReliable == Init /\ [][NextReliable]_vars

----------------------------------------------------------------------------
(* parse_action on its own: a reply text and the role of the replier are   *)
(* given, and parse_action is applied to them once.                        *)

(* json.dumps of an action: the keys in the order of the model's fields or *)
(* in the reverse order.                                                   *)
Reverse(keys) == [i \in 1..Len(keys) |-> keys[Len(keys) + 1 - i]]

Serialized(d) ==
    LET keys == IF d["action"] = StrV("ask_question") THEN AskKeys ELSE GuessKeys
    IN  {json_dumps(d, keys), json_dumps(d, Reverse(keys))}

(* The ways a reply carries its JSON: bare or in a code fence, with or     *)
(* without a language tag, with or without whitespace around it.           *)
Wrappings(x) ==
    {Bare(x), Padded(x), Fenced(x), FencedJson(x),
     Padded(Fenced(x)), Padded(FencedJson(x))}

ParseRoster == SubSeq(Registry, 1, MaxPlayers)

ParseActions ==
    {AskDict(t, q) : t \in Range(ParseRoster) \cup {Stranger}, q \in Questions}
      \cup {GuessDict(g) : g \in all_locations \cup {""}}

ParseReplies ==
    UNION {Wrappings(x) : x \in UNION {Serialized(d) : d \in ParseActions}}
      \cup UNION {Wrappings(x) : x \in NonObjectPayloads \cup MalformedPayloads}

ParseInit ==
    /\ request = NoRequest
    /\ participants = ParseRoster
    /\ location \in all_locations
    /\ max_rounds = 1
    /\ round = 0
    /\ game_over = FALSE
    /\ spy_win = FALSE
    /\ assigned_roles = assign_roles(participants, participants[1])
    /\ pc = "parse"
    /\ idx \in 1..2
    /\ answer = <<>>
    /\ action = EmptyDict
    /\ votes = <<>>
    /\ tasks = {}
    /\ bcast = Idle
    /\ game_result = NoResult
    /\ error = None
    /\ \E reply \in ParseReplies :
          last_call = [Call("action", assigned_roles[idx].name, FALSE, None,
                            IF assigned_roles[idx].role = "spy"
                            THEN _build_spy_action_prompt
                            ELSE _build_non_spy_action_prompt)
                          EXCEPT !.reply = reply]
    /\ sent = [NothingSent EXCEPT !["action"] = 1]
    /\ offered = [n \in Range(participants) |-> 0]
    /\ iterations = 0

(* action = parse_action(response, is_spy=...)                              *)
ParseReply ==
    /\ pc = "parse"
    /\ LET parsed == parse_action(last_call.reply, RoleOf(last_call.to) = "spy")
       IN  /\ action' = parsed.action
           /\ error' = IF parsed.outcome = "AttributeError"
                       THEN "AttributeError" ELSE None
           /\ pc' = IF parsed.outcome = "dict" THEN "parsed" ELSE "rejected"
    /\ UNCHANGED <<request, participants, location, max_rounds, round, game_over, spy_win,
                   assigned_roles, idx, answer, votes, tasks, bcast, game_result,
                   last_call, sent, offered, iterations>>

NextParse == ParseReply

SpecParse == ParseInit /\ [][NextParse]_vars

(***************************************************************************)
(* Agent (green/agent.py): the entry point that receives an EvalRequest,   *)
(* validates it, runs one game on a SpyfallEnv and publishes the result.   *)
(***************************************************************************)
MinPlayers == 3
MaxAllowedPlayers == 8

required_config_keys == {"location", "num_rounds"}

(* Names a request can bring: enough of them to exceed MaxAllowedPlayers.  *)
RequestNames ==
    Registry \o <<"Frank", "Grace", "Heidi", "Ivan">>

RequestRosters ==
    {SubSeq(RequestNames, 1, n) : n \in 0..MaxPlayers} \cup {RequestNames}

(* EvalRequest.model_validate_json: a text that is no EvalRequest raises   *)
(* ValidationError (parsed = FALSE); otherwise participants and config,    *)
(* the config being any dict: its keys may lack a required one.            *)
Requests ==
    {NoRequest} \cup
    { [parsed |-> TRUE, participants |-> r, keys |-> k,
       location |-> l, num_rounds |-> n] :
         r \in RequestRosters, k \in SUBSET required_config_keys,
         l \in all_locations \cup {"random"}, n \in 1..MaxRounds }

validate_request_nomin(req) ==
    IF required_config_keys \ req.keys # {} THEN FALSE
    ELSE IF Len(req.participants) > MaxAllowedPlayers THEN FALSE
    ELSE TRUE

validate_request(req) ==
    IF required_config_keys \ req.keys # {} THEN FALSE
    ELSE IF Len(req.participants) < MinPlayers THEN FALSE
    ELSE IF Len(req.participants) > MaxAllowedPlayers THEN FALSE
    ELSE TRUE

(* config["location"], with "random" resolved by random.choice.            *)
ResolveLocation(req) ==
    IF Lower(req.location) = "random" THEN all_locations ELSE {req.location}

(* The keys Agent.run_single_game and Agent._format_game_result subscript  *)
(* the dict play_game returned with.                                       *)
RunSingleGameReads == {"players"}

FormatReads(result) ==
    {"players", "end_method", "result"} \cup
    (IF "end_method" \in DOMAIN result /\ result.end_method = "vote"
        THEN {"voted_as_spy", "votes"} ELSE {})

AgentInit ==
    /\ request \in Requests
    /\ participants = <<>>
    /\ location = None
    /\ max_rounds = 0
    /\ round = 0
    /\ game_over = FALSE
    /\ spy_win = FALSE
    /\ assigned_roles = <<>>
    /\ pc = "received"
    /\ idx = 0
    /\ answer = <<>>
    /\ action = EmptyDict
    /\ votes = <<>>
    /\ tasks = {}
    /\ bcast = Idle
    /\ game_result = NoResult
    /\ error = None
    /\ last_call = NoCall
    /\ sent = NothingSent
    /\ offered = [n \in {} |-> 0]
    /\ iterations = 0

(* Agent.run up to the SpyfallEnv constructor in run_single_game: a        *)
(* request that does not parse or does not validate is rejected and run    *)
(* returns; otherwise the environment is constructed from the request.     *)
AgentRun ==
    /\ pc = "received"
    /\ IF ~request.parsed \/ ~validate_request(request)
          THEN /\ pc' = "rejected_request"
               /\ UNCHANGED <<participants, location, max_rounds, offered>>
          ELSE /\ pc' = "constructed"
               /\ participants' = request.participants
               /\ location' \in ResolveLocation(request)
               /\ max_rounds' = request.num_rounds
               /\ offered' = [n \in Range(request.participants) |-> 0]
    /\ UNCHANGED <<request, round, game_over, spy_win, assigned_roles, idx,
                   answer, action, votes, tasks, bcast, game_result, error,
                   last_call, sent, iterations>>

(* The rest of run_single_game after play_game returned, then              *)
(* _format_game_result and updater.add_artifact: a subscript with a key    *)
(* the dict lacks raises KeyError and no artifact is added.                *)
AgentPublish ==
    /\ pc = "returned"
    /\ request # NoRequest
    /\ IF (RunSingleGameReads \cup FormatReads(game_result)) \subseteq DOMAIN game_result
          THEN /\ pc' = "published"
               /\ UNCHANGED error
          ELSE /\ pc' = "raised"
               /\ error' = "KeyError"
    /\ UNCHANGED <<request, participants, location, max_rounds, round,
                   game_over, spy_win, assigned_roles, idx, answer, action,
                   votes, tasks, bcast, game_result, last_call, sent, offered,
                   iterations>>

NextAgent ==
    \/ AgentRun
    \/ AssignRoles
    \/ WhileEnter
    \/ WhileExit
    \/ \E reply \in InitReplies : SendInitialPrompt(reply)
    \/ EndInitialPrompts
    \/ \E reply \in ActionReplies(participants) : ActionTurn(reply)
    \/ EndActionRound
    \/ \E reply \in AnswerReplies : AnswerTurn(reply)
    \/ \E p \in tasks, ok \in BOOLEAN : Deliver(p, ok)
    \/ GatherReturn
    \/ \E reply \in VoteReplies(participants) : VoteTurn(reply)
    \/ EndGame
    \/ CallRaises
    \/ AgentPublish

SpecAgent == AgentInit /\ [][NextAgent]_vars

----------------------------------------------------------------------------
(* Properties.                                                             *)

Spies == {i \in 1..Len(assigned_roles) : assigned_roles[i].role = "spy"}

IsSpy(name) == \E i \in Spies : assigned_roles[i].name = name

(* What the last action prompt's reply decodes to.                         *)
Decoded(call) == json_loads(extract_json_from_response(call.reply))

Replied(kind) == last_call.kind = kind /\ ~last_call.raised

(* C1: after assign_roles on N >= 1 participants exactly one participant   *)
(* is the spy and every other one a non-spy, whoever was chosen; the keys  *)
(* of the assignment are the participants in registration order; and the   *)
(* assignment does not change while the game is played.                    *)
C1_OneSpyInOrder ==
    /\ [](pc # "constructed" /\ participants # <<>> =>
            /\ Len(assigned_roles) = Len(participants)
            /\ \A i \in 1..Len(participants) :
                 /\ assigned_roles[i].name = participants[i]
                 /\ assigned_roles[i].role \in {"spy", "non-spy"}
            /\ Cardinality(Spies) = 1)
    /\ [][pc # "constructed" => assigned_roles' = assigned_roles]_vars

C1_Witness ==
    /\ pc = "returned"
    /\ Len(participants) >= 3
    /\ assigned_roles[2].role = "spy"

(* C2: when a guess_location action of the spy has been handled, game_over *)
(* is true, and spy_win is true exactly when the guess equals the location *)
(* up to case.                                                             *)
C2_SpyGuessed ==
    /\ Replied("action")
    /\ IsSpy(last_call.to)
    /\ Decoded(last_call).t = "dict"
    /\ Decoded(last_call).d["action"] = StrV("guess_location")
    /\ Decoded(last_call).d["location_guess"].ty = "str"

C2_Guess == Decoded(last_call).d["location_guess"].v

C2_GuessEndsGame ==
    C2_SpyGuessed =>
        /\ game_over
        /\ spy_win <=> (Lower(C2_Guess) = Lower(location))

C2_Witness ==
    /\ C2_SpyGuessed
    /\ C2_Guess # location
    /\ spy_win
    /\ game_over

(* C3: once game_over is set no further turn executes: no action prompt,   *)
(* no answer request and no vote prompt is sent, and no round starts.      *)
C3_NoTurnAfterGameOver ==
    [][game_over =>
         /\ offered' = offered
         /\ \A k \in {"init", "action", "answer", "vote"} : sent'[k] = sent[k]
         /\ pc' \notin {"init", "answer", "vote"}
         /\ ~(pc = "while" /\ pc' = "round")]_vars

C3_Witness ==
    /\ pc = "returned"
    /\ game_over
    /\ round < max_rounds
    /\ \E i \in 1..Len(participants) :
         /\ i < Len(participants)
         /\ assigned_roles[i].role = "spy"
         /\ offered[participants[i]] = 1
         /\ \A j \in (i + 1)..Len(participants) : offered[participants[j]] = 0

(* C4: the result of a game a guess ended has end_method spy_guess, the    *)
(* winner the latched spy_win names, the assigned spy, the participants in *)
(* registration order, and no vote fields.                                 *)
C4_EarlyResult ==
    (pc = "returned" /\ game_over) =>
        /\ game_result.end_method = "spy_guess"
        /\ game_result.winner = (IF spy_win THEN "spy" ELSE "non-spies")
        /\ IsSpy(game_result.spy)
        /\ game_result.participants = participants
        /\ game_result.voted_as_spy = None
        /\ game_result.votes.is_none

C4_Witness ==
    /\ pc = "returned"
    /\ game_over
    /\ spy_win
    /\ game_result.winner = "spy"
    /\ Len(participants) >= 3

(* C5: play_game returns one result, never replaced; the vote phase runs   *)
(* exactly when the loop is left with the rounds exhausted and game_over   *)
(* false, and then the result has end_method vote with the tally and the   *)
(* accused; no run takes both the vote path and the early path.            *)
C5_VotePhase ==
    \/ pc = "vote"
    \/ bcast.caller = "end_game"
    \/ game_result.end_method = "vote"

C5_OneResultOnePath ==
    /\ [](game_result.end_method # None <=> pc = "returned")
    /\ [](C5_VotePhase => ~game_over /\ round = max_rounds)
    /\ [](pc = "returned" /\ ~game_over =>
            /\ game_result.end_method = "vote"
            /\ ~game_result.votes.is_none
            /\ NamesOf(game_result.votes.tally) = participants
            /\ game_result.voted_as_spy \in Range(participants))
    /\ [](pc = "returned" /\ game_over => game_result.end_method = "spy_guess")
    /\ [][game_result.end_method # None => game_result' = game_result]_vars
    /\ [][pc = "while" /\ pc' \notin {"while", "init", "round"} =>
            (pc' = "vote" <=> (~game_over /\ round = max_rounds))]_vars

C5_Witness ==
    /\ pc = "returned"
    /\ ~game_over
    /\ game_result.end_method = "vote"
    /\ \E i \in 1..Len(game_result.votes.tally) :
         game_result.votes.tally[i].count >= 2

(* C6: when no guess is made every participant has been sent max_rounds    *)
(* action prompts when the vote phase starts.                              *)
C6_MaxRoundsActionTurns ==
    pc = "vote" => \A n \in Range(participants) : offered[n] = max_rounds

(* play_game was left by an exception.                                     *)
Aborted == pc = "raised" /\ error # "IndexError"

(* C7: the round counter starts at 0, grows by one with every completed    *)
(* iteration, never exceeds max_rounds, the loop makes at most             *)
(* max_rounds + 1 iterations and, no messenger call failing, the game      *)
(* reaches its end instead of being aborted.                               *)
C7_RoundsAndTermination ==
    /\ round \in 0..max_rounds
    /\ iterations = round
    /\ iterations <= max_rounds + 1
    /\ ~Aborted

(* C8: game_over is false at first and, once true, stays true.             *)
C8_GameOverLatch ==
    /\ [](pc = "constructed" => ~game_over)
    /\ [][game_over => game_over']_vars

C8_Witness ==
    /\ pc = "returned"
    /\ game_over
    /\ last_call.kind = "broadcast"
    /\ round < max_rounds

(* The reply to the last action prompt is no valid action of the replier.  *)
C9_ValidAsk(d) ==
    /\ d["action"] = StrV("ask_question")
    /\ d["target"].ty = "str"
    /\ d["question"].ty = "str"

C9_ValidGuess(d) ==
    /\ d["action"] = StrV("guess_location")
    /\ d["location_guess"].ty = "str"

C9_BadReply ==
    /\ Replied("action")
    /\ \/ Decoded(last_call).t # "dict"
       \/ /\ ~C9_ValidAsk(Decoded(last_call).d)
          /\ ~(IsSpy(last_call.to) /\ C9_ValidGuess(Decoded(last_call).d))

(* C9: a reply to an action prompt that is no valid action, from a         *)
(* participant of either role, forfeits the turn and the scheduler goes    *)
(* on: nothing of the game state changes and the game is not aborted.      *)
C9_BadReplyForfeitsTurn ==
    C9_BadReply =>
        /\ pc \in {"round", "while", "vote"}
        /\ error = None
        /\ ~game_over

(* C10: a point-to-point call that raises is absorbed: a failed action     *)
(* prompt forfeits the turn, a failed vote prompt counts as no vote, and   *)
(* the game goes on to its result.                                         *)
C10_TransportFailureAbsorbed ==
    (last_call.raised /\ last_call.kind \in {"action", "vote"}) => ~Aborted

(* A step in which an action prompt is sent and its reply handled.         *)
ActionReplyStep ==
    /\ AtActionCall
    /\ last_call'.kind = "action"
    /\ ~last_call'.raised

(* The turn of the step ends with nothing done: no answer request, no      *)
(* broadcast, no change of the game's fields, and the next participant is  *)
(* the one the for loop moves to.                                          *)
TurnWasted ==
    /\ pc' = "round"
    /\ idx' = idx + 1
    /\ round' = round
    /\ game_over' = game_over
    /\ spy_win' = spy_win
    /\ error' = error
    /\ tasks' = {}
    /\ bcast' = Idle
    /\ sent'["answer"] = 0
    /\ sent'["broadcast"] = 0

(* The reply of a call is a valid ask_question whose target is unknown.    *)
C11_UnknownTarget(call) ==
    /\ Decoded(call).t = "dict"
    /\ C9_ValidAsk(Decoded(call).d)
    /\ Decoded(call).d["target"].v \notin Range(participants)

(* C11: handling an ask_question whose target is no participant sends no   *)
(* answer request, makes no broadcast, leaves round, game_over and spy_win *)
(* as they were, and the game goes on with the next participant.           *)
C11_UnknownTargetIsNoOp ==
    [][ActionReplyStep /\ C11_UnknownTarget(last_call') => TurnWasted]_vars

C11_Witness ==
    /\ Replied("action")
    /\ C11_UnknownTarget(last_call)
    /\ Decoded(last_call).d["target"].v = Stranger
    /\ pc = "round"
    /\ idx = 2
    /\ Len(participants) >= 2
    /\ sent["answer"] = 0
    /\ ~game_over

(* The reply of a call is a valid ask_question whose target is known.      *)
C12_KnownTarget(call) ==
    /\ Decoded(call).t = "dict"
    /\ C9_ValidAsk(Decoded(call).d)
    /\ Decoded(call).d["target"].v \in Range(participants)

C12_TurnDone ==
    \/ sent["answer"] = 0 /\ sent["broadcast"] = 0
    \/ sent["answer"] = 1 /\ sent["broadcast"] = Cardinality(Range(participants))

(* C12: handling an ask_question with a known target sends one answer      *)
(* request, to the target; only when the answer is there one broadcast is  *)
(* made, with one delivery to every participant, the target and the actor  *)
(* included; and the next action prompt is sent only when that broadcast   *)
(* has completed.                                                          *)
C12_AskAnswerBroadcast ==
    /\ [][ActionReplyStep /\ C12_KnownTarget(last_call') =>
            /\ pc' = "answer"
            /\ action' = Decoded(last_call').d
            /\ tasks' = {}
            /\ sent'["answer"] = 0
            /\ sent'["broadcast"] = 0]_vars
    /\ [][pc = "answer" /\ pc' # "raised" =>
            /\ last_call'.kind = "answer"
            /\ last_call'.to = action["target"].v
            /\ sent'["answer"] = 1
            /\ sent'["broadcast"] = 0
            /\ pc' = "broadcast"
            /\ tasks' = Range(participants)
            /\ {Turn, action["target"].v} \subseteq tasks'
            /\ bcast'.msg.kind = "qa"
            /\ bcast'.msg.answer = last_call'.reply]_vars
    /\ [](pc = "broadcast" /\ bcast.caller = "ask" =>
            /\ sent["answer"] = 1
            /\ sent["broadcast"] + Cardinality(tasks)
                 = Cardinality(Range(participants)))
    /\ [][pc = "broadcast" /\ tasks' # tasks =>
            \E p \in tasks :
                /\ tasks' = tasks \ {p}
                /\ last_call'.kind = "broadcast"
                /\ last_call'.to = p
                /\ last_call'.prompt = bcast.msg]_vars
    /\ [][offered' # offered =>
            pc = "round" /\ tasks = {} /\ C12_TurnDone]_vars

C12_Witness ==
    /\ pc = "round"
    /\ idx = 3
    /\ Len(participants) = 3
    /\ last_call.kind = "broadcast"
    /\ last_call.prompt.kind = "qa"
    /\ last_call.prompt.actor = "Bob"
    /\ last_call.prompt.target = "Carol"
    /\ sent["answer"] = 1
    /\ sent["broadcast"] = 3

(* C13: every handled guess_location, correct or not, is followed by one   *)
(* broadcast to all participants before the result is built: when a game a *)
(* guess ended returns, the turn of the guess has made one delivery to     *)
(* every participant, of the message for the guess's outcome.              *)
C13_GuessIsBroadcast ==
    (pc = "returned" /\ game_over) =>
        /\ sent["broadcast"] = Cardinality(Range(participants))
        /\ last_call.kind = "broadcast"
        /\ last_call.prompt.kind =
              (IF spy_win THEN "guess_correct" ELSE "guess_incorrect")

(* The tag of a decoded reply, None for a reply that is no object or has   *)
(* no string tag.                                                          *)
C14_Tag(call) ==
    IF Decoded(call).t = "dict" /\ Decoded(call).d["action"].ty = "str"
    THEN Decoded(call).d["action"].v
    ELSE None

(* The reply is an object whose tag is no action's, or a guess of a        *)
(* non-spy.                                                                *)
C14_Rejected(call) ==
    /\ Decoded(call).t = "dict"
    /\ \/ C14_Tag(call) \notin {"ask_question", "guess_location"}
       \/ C14_Tag(call) = "guess_location" /\ ~IsSpy(call.to)

(* C14: a reply whose tag is neither ask_question nor guess_location, and  *)
(* a guess_location of a non-spy, is rejected before anything is executed: *)
(* the turn ends with nothing done; and no guess_location is ever being    *)
(* handled for an actor that is not the spy.                               *)
C14_RejectedBeforeExecution ==
    /\ [][ActionReplyStep /\ C14_Rejected(last_call') =>
            TurnWasted /\ action' = EmptyDict]_vars
    /\ [](action["action"] = StrV("guess_location") => IsSpy(Turn))
    /\ [][game_over' /\ ~game_over =>
            C14_Tag(last_call') = "guess_location" /\ IsSpy(last_call'.to)]_vars

C14_Witness ==
    /\ Replied("action")
    /\ ~IsSpy(last_call.to)
    /\ C14_Tag(last_call) = "guess_location"
    /\ Decoded(last_call).d["location_guess"] = StrV(location)
    /\ pc = "round"
    /\ idx = 2
    /\ ~game_over

(* The reply is an object with the shape of an action of the replier, and  *)
(* one of its required strings is empty.                                   *)
C15_EmptyField(call) ==
    /\ Decoded(call).t = "dict"
    /\ \/ /\ C9_ValidAsk(Decoded(call).d)
          /\ \/ Decoded(call).d["target"].v = ""
             \/ Decoded(call).d["question"].v = ""
       \/ /\ IsSpy(call.to)
          /\ C9_ValidGuess(Decoded(call).d)
          /\ Decoded(call).d["location_guess"].v = ""

(* C15: a reply one of whose required fields is the empty string is a      *)
(* parse failure and is never executed: no answer is requested for it and  *)
(* it does not end the game.                                               *)
C15_EmptyFieldRejected ==
    (Replied("action") /\ C15_EmptyField(last_call)) =>
        /\ ~game_over
        /\ pc # "answer"
        /\ sent["answer"] = 0

(* The valid actions of a role: ask_question for both, guess_location for  *)
(* the spy.                                                                *)
C16_ValidActions(is_spy) ==
    {d \in ParseActions :
        d["action"] = StrV("ask_question")
          \/ (is_spy /\ d["action"] = StrV("guess_location"))}

(* C16: a valid action serialized to JSON and given to parse_action, bare  *)
(* or in a code fence with or without language tag, with or without        *)
(* whitespace around it, comes back as the same structured action.         *)
C16_RoundTrip ==
    pc \in {"parsed", "rejected"} =>
        \A d \in C16_ValidActions(IsSpy(last_call.to)) :
            \A x \in Serialized(d) :
                last_call.reply \in Wrappings(x) =>
                    pc = "parsed" /\ action = d /\ error = None

C16_Witness ==
    /\ pc = "parsed"
    /\ IsSpy(last_call.to)
    /\ last_call.reply = Padded(FencedJson(json_dumps(GuessDict("Beach"), GuessKeys)))
    /\ action = GuessDict("Beach")

(* C17: a broadcast attempts one delivery to every participant; a failed   *)
(* delivery neither stops the others nor reaches the caller; no delivery   *)
(* is made twice; and the broadcast returns only when every delivery has   *)
(* completed, so none is in flight when the caller goes on.                *)
C17_BroadcastIsolatesFailures ==
    /\ [][pc # "broadcast" /\ pc' = "broadcast" =>
            tasks' = Range(participants) /\ bcast'.failed = {}]_vars
    /\ [](pc # "broadcast" => tasks = {})
    /\ [](pc = "broadcast" =>
            /\ error = None
            /\ tasks \subseteq Range(participants)
            /\ bcast.failed \subseteq Range(participants) \ tasks
            /\ sent["broadcast"] + Cardinality(tasks)
                 = Cardinality(Range(participants)))
    /\ [][pc = "broadcast" /\ pc' = "broadcast" =>
            \E p \in tasks :
                /\ tasks' = tasks \ {p}
                /\ last_call'.kind = "broadcast"
                /\ last_call'.to = p
                /\ last_call'.metadata = "skip_response=True"
                /\ bcast'.failed \in {bcast.failed, bcast.failed \cup {p}}
                /\ last_call'.raised <=> p \in bcast'.failed]_vars
    /\ [][pc = "broadcast" /\ pc' # "broadcast" =>
            /\ tasks = {}
            /\ sent["broadcast"] = Cardinality(Range(participants))
            /\ pc' \in {"round", "returned"}
            /\ error' = None]_vars

C17_Witness ==
    /\ pc = "round"
    /\ Len(participants) = 3
    /\ last_call.kind = "broadcast"
    /\ last_call.raised
    /\ sent["broadcast"] = 3
    /\ tasks = {}
    /\ error = None

(* The game returned through the vote.                                     *)
VoteReturned == pc = "returned" /\ game_result.end_method = "vote"

C18_Tally == game_result.votes.tally

(* C18: the accused is a participant whose count is the maximum of the     *)
(* tally, and of the participants with that count the first in             *)
(* registration order.                                                     *)
C18_AccusedIsFirstMax ==
    VoteReturned =>
        /\ NamesOf(C18_Tally) = participants
        /\ \E i \in 1..Len(participants) :
              /\ game_result.voted_as_spy = participants[i]
              /\ \A j \in 1..Len(participants) :
                    C18_Tally[j].count <= C18_Tally[i].count
              /\ \A j \in 1..(i - 1) :
                    C18_Tally[j].count < C18_Tally[i].count

C18_Witness ==
    /\ VoteReturned
    /\ participants = <<"Alice", "Bob", "Carol">>
    /\ C18_Tally[1].count = 0
    /\ C18_Tally[2].count = 1
    /\ C18_Tally[3].count = 1
    /\ game_result.voted_as_spy = "Bob"

(* C19: on the vote path the non-spies win exactly when the accused is the *)
(* true spy, and the spy wins otherwise; with Alice, Bob and Carol, Alice  *)
(* the spy and two votes for Alice, the non-spies win.                     *)
C19_VoteWinner ==
    VoteReturned =>
        /\ IsSpy(game_result.spy)
        /\ game_result.winner \in {"non-spies", "spy"}
        /\ game_result.winner = "non-spies"
              <=> IsSpy(game_result.voted_as_spy)
        /\ spy_win <=> game_result.winner = "spy"
        /\ (/\ participants = <<"Alice", "Bob", "Carol">>
            /\ IsSpy("Alice")
            /\ C18_Tally = <<[name |-> "Alice", count |-> 2],
                             [name |-> "Bob", count |-> 0],
                             [name |-> "Carol", count |-> 0]>>)
              => game_result.winner = "non-spies"

C19_Witness ==
    /\ VoteReturned
    /\ participants = <<"Alice", "Bob", "Carol">>
    /\ IsSpy("Alice")
    /\ C18_Tally[1].count = 2
    /\ game_result.voted_as_spy = "Alice"
    /\ game_result.winner = "non-spies"

(* A step in which a vote prompt is sent and its reply read.               *)
VoteReplyStep ==
    /\ AtVoteCall
    /\ last_call'.kind = "vote"
    /\ ~last_call'.raised

(* The participants a reply text names once the whitespace around it is    *)
(* removed: the text is then the one word that is the name.                *)
C20_Named(reply) ==
    {n \in Range(participants) :
        LET words == SelectSeq(reply, LAMBDA x : ~IsSpace(x))
            first == Min({i \in 1..Len(reply) : ~IsSpace(reply[i])})
            last == Max({i \in 1..Len(reply) : ~IsSpace(reply[i])})
        IN  /\ Len(words) = 1
            /\ words[1] = Word(n)
            /\ first = last}

C20_Total(tally) ==
    LET sum[i \in 0..Len(tally)] ==
            IF i = 0 THEN 0 ELSE sum[i - 1] + tally[i].count
    IN  sum[Len(tally)]

(* C20: a vote reply is counted exactly when, trimmed, it is the name of a *)
(* participant, in the same case; it then adds one to that participant's   *)
(* count and to no other; any other reply changes no count; and either way *)
(* the next voter is asked, each voter once.                               *)
C20_VoteCounting ==
    /\ [][VoteReplyStep =>
            /\ last_call'.to = _get_non_spies(assigned_roles)[idx]
            /\ idx' = idx + 1
            /\ pc' = "vote"
            /\ NamesOf(votes') = participants
            /\ \A i \in 1..Len(votes) :
                  votes'[i].count =
                      votes[i].count
                        + (IF votes[i].name \in C20_Named(last_call'.reply)
                           THEN 1 ELSE 0)]_vars
    /\ [](pc = "vote" =>
            /\ sent["vote"] = idx - 1
            /\ sent["vote"] <= Len(_get_non_spies(assigned_roles))
            /\ C20_Total(votes) <= sent["vote"])

C20_Witness ==
    /\ pc = "vote"
    /\ Len(participants) = 3
    /\ idx = 3
    /\ Replied("vote")
    /\ last_call.reply = Text("alice")
    /\ C20_Total(votes) = 1
    /\ \E i \in 1..3 : votes[i].count = 1 /\ votes[i].name # last_call.to

PointToPoint == {"init", "action", "answer", "vote"}

(* C21: a participant that never replies does not stall the game: its call *)
(* ends by the messenger's timeout, the action turn is then forfeited or   *)
(* the vote counted as absent, and the game goes on to its result.         *)
C21_TimeoutForfeits ==
    /\ error # "TransportError"
    /\ (last_call.raised /\ last_call.kind \in PointToPoint) =>
          pc \in {"init", "round", "answer", "while", "vote", "broadcast",
                  "returned"}

(* C22: a game set up with no participant fails in the role assignment,    *)
(* before any message is sent to anyone.                                   *)
C22_NoParticipantsFailsSetup ==
    /\ [](participants = <<>> =>
            /\ pc \in {"constructed", "raised"}
            /\ pc = "raised" => error = "IndexError"
            /\ last_call = NoCall
            /\ sent = NothingSent
            /\ assigned_roles = <<>>
            /\ tasks = {}
            /\ game_result = NoResult)
    /\ [][participants = <<>> /\ pc = "constructed" =>
            pc' = "raised" /\ error' = "IndexError"]_vars

C22_Witness ==
    /\ participants = <<>>
    /\ pc = "raised"
    /\ error = "IndexError"
    /\ last_call = NoCall

(* A step that issues a point-to-point call of the given kind.             *)
C24_Calls(kind) ==
    /\ last_call'.kind = kind
    /\ \/ sent'[kind] = sent[kind] + 1
       \/ kind = "action" /\ offered' # offered

(* C24: point-to-point calls are strictly sequential: a step issues at     *)
(* most one of them, and only with no other request and no broadcast       *)
(* delivery outstanding; an action prompt is sent only when the turn       *)
(* before it, its answer request and broadcast included, is over; and in   *)
(* every action round the prompts go out in registration order.            *)
C24_SequentialCalls ==
    /\ [][\A kind \in PointToPoint : C24_Calls(kind) =>
            /\ tasks = {}
            /\ bcast = Idle
            /\ pc = (CASE kind = "init" -> "init"
                       [] kind = "action" -> "round"
                       [] kind = "answer" -> "answer"
                       [] OTHER -> "vote")
            /\ \A other \in PointToPoint \ {kind, "action"} :
                  sent'[other] = sent[other] \/ kind = "action"]_vars
    /\ [][offered' # offered =>
            /\ action = EmptyDict
            /\ answer = <<>>
            /\ last_call'.to = participants[idx]
            /\ offered' = [offered EXCEPT ![participants[idx]] = @ + 1]
            /\ \A j \in 1..Len(participants) :
                  offered[participants[j]] = (IF j < idx THEN round ELSE round - 1)]_vars
    /\ [](pc \in {"answer", "broadcast"} => idx \in 1..Len(participants))
    /\ [](tasks # {} => pc = "broadcast")

C24_Witness ==
    /\ pc = "round"
    /\ round = 2
    /\ idx = 3
    /\ Len(participants) = 3
    /\ last_call.kind = "broadcast"
    /\ offered = [n \in Range(participants) |-> IF n = "Carol" THEN 1 ELSE 2]

(* C25: in the Init round every participant gets one initialization        *)
(* message, in registration order, each opening a new conversation; the    *)
(* reply to it is not parsed or executed; all of them are sent before the  *)
(* first action prompt; and every later message continues the              *)
(* conversation.                                                           *)
C25_InitRound ==
    /\ [][sent'["init"] # sent["init"] /\ pc = "init" =>
            /\ last_call'.kind = "init"
            /\ last_call'.to = participants[idx]
            /\ last_call'.new_conversation
            /\ last_call'.prompt.kind
                 = (IF IsSpy(participants[idx]) THEN "spy_init" ELSE "non_spy_init")
            /\ sent'["init"] = idx
            /\ pc' = "raised" \/ (pc' = "init" /\ idx' = idx + 1)
            /\ <<action', game_over', spy_win', round', tasks', answer'>>
                 = <<EmptyDict, FALSE, FALSE, 0, {}, <<>> >>]_vars
    /\ [](pc = "init" =>
            /\ round = 0
            /\ sent["init"] = idx - 1
            /\ \A n \in Range(participants) : offered[n] = 0)
    /\ [][pc = "init" /\ pc' = "while" =>
            sent["init"] = Len(participants) /\ round' = 1]_vars
    /\ [][offered' # offered => round >= 1]_vars
    /\ [](round >= 1 => pc # "init")
    /\ [](last_call.kind # "none" =>
            (last_call.new_conversation <=> last_call.kind = "init"))

C25_Witness ==
    /\ pc = "round"
    /\ round = 1
    /\ idx = 1
    /\ Len(participants) = 3
    /\ sent["init"] = 3
    /\ Replied("init")
    /\ last_call.to = "Carol"
    /\ Decoded(last_call).t = "dict"
    /\ ~game_over

(* The action prompts a participant can have had: one for each round up to *)
(* the one being played.                                                   *)
C26_RoundsOffered ==
    IF pc \in {"round", "answer", "raised"}
         \/ (pc = "broadcast" /\ bcast.caller # "end_game")
    THEN round
    ELSE Max({round - 1, 0})

(* C26: there are no retries: a participant gets at most one action prompt *)
(* in every action round, whatever becomes of its reply, and a voter gets  *)
(* one vote prompt.                                                        *)
C26_NoRetries ==
    /\ [](\A n \in Range(participants) : offered[n] <= C26_RoundsOffered)
    /\ [][\A n \in Range(participants) : offered'[n] # offered[n] =>
            offered[n] = round - 1 /\ offered'[n] = round]_vars
    /\ [][ActionReplyStep =>
            \/ pc' = "round" /\ idx' = idx + 1
            \/ pc' \in {"answer", "broadcast", "raised"} /\ idx' = idx]_vars
    /\ [][pc' = "round" /\ pc \in {"answer", "broadcast"} => idx' = idx + 1]_vars
    /\ [][pc = "vote" /\ sent'["vote"] # sent["vote"] =>
            /\ sent'["vote"] = idx
            /\ last_call'.to = _get_non_spies(assigned_roles)[idx]
            /\ pc' = "raised" \/ idx' = idx + 1]_vars
    /\ [][pc = "vote" /\ pc' = "broadcast" =>
            sent["vote"] = Len(_get_non_spies(assigned_roles))]_vars

C26_Witness ==
    /\ pc = "round"
    /\ round = 1
    /\ idx = 3
    /\ Len(participants) = 3
    /\ Replied("action")
    /\ last_call.to = "Bob"
    /\ Decoded(last_call).t = "error"
    /\ offered = [n \in Range(participants) |-> IF n = "Carol" THEN 0 ELSE 1]

(* The participants that are not the spy, in registration order.           *)
C27_Voters == SelectSeq(participants, LAMBDA n : ~IsSpy(n))

(* _collect_votes has returned.                                            *)
VotesCollected ==
    \/ pc = "broadcast" /\ bcast.caller = "end_game"
    \/ VoteReturned

(* C27: in the vote phase every non-spy is sent one vote prompt, in        *)
(* registration order, and the spy none: N - 1 prompts for N participants. *)
C27_VotersAreNonSpies ==
    /\ [][pc = "vote" /\ sent'["vote"] # sent["vote"] =>
            /\ sent'["vote"] = sent["vote"] + 1
            /\ sent'["vote"] <= Len(C27_Voters)
            /\ last_call'.kind = "vote"
            /\ last_call'.to = C27_Voters[sent'["vote"]]]_vars
    /\ [](last_call.kind = "vote" => ~IsSpy(last_call.to))
    /\ [](VotesCollected => sent["vote"] = Len(participants) - 1)

C27_Witness ==
    /\ VoteReturned
    /\ participants = <<"Alice", "Bob", "Carol">>
    /\ IsSpy("Bob")
    /\ sent["vote"] = 2

(* C28: the choices a vote prompt offers are the other participants, all   *)
(* but the voter itself, so the spy is among the choices of every voter.   *)
C28_ChoicesAreTheOthers ==
    last_call.kind = "vote" =>
        /\ last_call.prompt.choices
             = SelectSeq(participants, LAMBDA n : n # last_call.to)
        /\ \E i \in 1..Len(last_call.prompt.choices) :
              IsSpy(last_call.prompt.choices[i])

(* The tally of the vote phase, while it is collected and afterwards.      *)
C29_Collecting == pc = "vote" \/ VotesCollected

(* C29: throughout vote collection the tally has one entry per participant,*)
(* the spy included; every count starts at zero and is a natural number;   *)
(* the counts sum to the number of valid votes received so far, which is   *)
(* at most the number of non-spies.                                        *)
C29_TallyInvariant ==
    /\ [][pc # "vote" /\ pc' = "vote" =>
            \A i \in 1..Len(votes') : votes'[i].count = 0]_vars
    /\ [](C29_Collecting =>
            /\ Len(votes) = Len(participants)
            /\ \A i \in 1..Len(participants) :
                  /\ votes[i].name = participants[i]
                  /\ votes[i].count \in Nat
            /\ \E i \in 1..Len(votes) : IsSpy(votes[i].name)
            /\ C20_Total(votes) <= sent["vote"]
            /\ sent["vote"] <= Len(C27_Voters))
    /\ [][VoteReplyStep =>
            C20_Total(votes') =
                C20_Total(votes)
                  + (IF C20_Named(last_call'.reply) # {} THEN 1 ELSE 0)]_vars
    /\ [][C29_Collecting /\ ~VoteReplyStep => votes' = votes]_vars

C29_Witness ==
    /\ VotesCollected
    /\ Len(participants) = 3
    /\ sent["vote"] = 2
    /\ C20_Total(votes) = 1
    /\ \E i \in 1..3 : IsSpy(votes[i].name) /\ votes[i].count = 1

C31_SpyGuess(call) ==
    /\ IsSpy(call.to)
    /\ Decoded(call).t = "dict"
    /\ C9_ValidGuess(Decoded(call).d)

(* C31: game_over is true exactly when a guess_location of the spy has     *)
(* been handled: it is set by the step that handles one, right or wrong,   *)
(* and by no other; a game the vote ends returns with game_over false; and *)
(* spy_win is written only by the guess handling and the vote resolver.    *)
C31_GameOverIffGuessHandled ==
    /\ [][ActionReplyStep /\ C31_SpyGuess(last_call') => game_over']_vars
    /\ [][game_over' # game_over =>
            ActionReplyStep /\ C31_SpyGuess(last_call')]_vars
    /\ [](pc = "constructed" => ~game_over /\ ~spy_win)
    /\ [](C29_Collecting => ~game_over)
    /\ [][spy_win' # spy_win =>
            \/ ActionReplyStep /\ C31_SpyGuess(last_call')
            \/ pc = "vote" /\ pc' = "broadcast"]_vars

C31_Witness ==
    /\ pc = "returned"
    /\ Replied("action")
    /\ C31_SpyGuess(last_call)
    /\ game_over
    /\ ~spy_win
    /\ Len(participants) = 3

(* The fields that decide the course of the game keep their values.        *)
C32_GameUntouched ==
    /\ round' = round
    /\ game_over' = game_over
    /\ spy_win' = spy_win

(* A step that delivers a call to a participant that is not the spy.       *)
C32_NonSpyReplies ==
    /\ pc \in {"round", "answer", "broadcast"}
    /\ last_call'.kind \in {"action", "answer", "broadcast"}
    /\ ~IsSpy(last_call'.to)
    /\ \/ offered' # offered
       \/ sent'["answer"] # sent["answer"]
       \/ tasks' # tasks

(* C32: only the spy's own turn can end the game early: no reply of a      *)
(* non-spy to an action prompt, an answer request or a broadcast changes   *)
(* game_over or spy_win, whatever it says; and an ask_question of any      *)
(* actor, from its reply to the end of its broadcast, leaves round,        *)
(* game_over and spy_win as they were.                                     *)
C32_OnlySpyTurnEndsGame ==
    /\ [][C32_NonSpyReplies => C32_GameUntouched]_vars
    /\ [][ActionReplyStep /\ Decoded(last_call').t = "dict"
            /\ C9_ValidAsk(Decoded(last_call').d) => C32_GameUntouched]_vars
    /\ [][pc = "answer" \/ (pc = "broadcast" /\ bcast.caller = "ask") =>
            C32_GameUntouched]_vars
    /\ [][game_over' # game_over => IsSpy(participants[idx]) /\ pc = "round"]_vars

C32_Witness ==
    /\ pc = "round"
    /\ idx = 3
    /\ Len(participants) = 3
    /\ Replied("action")
    /\ last_call.to = "Bob"
    /\ ~IsSpy("Bob")
    /\ C14_Tag(last_call) = "guess_location"
    /\ Decoded(last_call).d["location_guess"] = StrV(location)
    /\ ~game_over
    /\ ~spy_win

(* The messages the orchestrator can address to a participant as the spy,  *)
(* written from what the spy may know: the names, the number of rounds,    *)
(* the action schema and what the participants said.  The location does    *)
(* not occur in them.                                                      *)
C33_SpyMessages(to) ==
    { [kind |-> "spy_init",
       other_players |-> SelectSeq(participants, LAMBDA n : n # to),
       location |-> None,
       max_rounds |-> max_rounds],
      [kind |-> "spy_action", schema |-> {"ask_question", "guess_location"}] }
      \cup { [kind |-> "answer", asker |-> a, question |-> q] :
                 a \in Range(participants), q \in Questions }

(* C33: the orchestrator does not disclose the location to the spy while   *)
(* the game runs: every initialization message, action prompt and answer   *)
(* request it sends to the spy is one of the messages that are written     *)
(* without the location, so two runs that differ only in the location send *)
(* the spy the same messages.                                              *)
C33_SpyNotToldLocation ==
    (last_call.kind \in {"init", "action", "answer"} /\ IsSpy(last_call.to)) =>
        /\ last_call.prompt \in C33_SpyMessages(last_call.to)
        /\ last_call.kind = "init" <=> last_call.prompt.kind = "spy_init"
        /\ last_call.kind = "action" <=> last_call.prompt.kind = "spy_action"

C33_Witness ==
    /\ pc = "broadcast"
    /\ ~game_over
    /\ Replied("answer")
    /\ IsSpy(last_call.to)
    /\ last_call.to = "Bob"
    /\ last_call.prompt.asker = "Alice"
    /\ round = 2

(***************************************************************************)
(* C34: once play_game has returned a result, Agent.run publishes one      *)
(* "Game Result" artifact built from it: the agent does not fail, and      *)
(* every key it subscripts the result with is a key of the result.         *)
(***************************************************************************)
C34_AgentReads ==
    RunSingleGameReads \cup FormatReads(game_result)

C34_ResultPublished ==
    /\ error # "KeyError"
    /\ (request # NoRequest /\ game_result.end_method # None) =>
           C34_AgentReads \subseteq DOMAIN game_result

(***************************************************************************)
(* C35: a request that does not parse, lacks a required config key, or     *)
(* names fewer than 3 or more than 8 participants is rejected: no          *)
(* environment is constructed, no role assigned and no message sent; only  *)
(* such a request is rejected.                                             *)
(***************************************************************************)
C35_Invalid ==
    \/ ~request.parsed
    \/ "location" \notin request.keys
    \/ "num_rounds" \notin request.keys
    \/ Len(request.participants) < 3
    \/ Len(request.participants) > 8

C35_InvalidRequestRejected ==
    /\ C35_Invalid =>
          /\ pc \in {"received", "rejected_request"}
          /\ participants = <<>>
          /\ assigned_roles = <<>>
          /\ last_call = NoCall
          /\ sent = NothingSent
          /\ game_result = NoResult
    /\ pc = "rejected_request" => C35_Invalid
    /\ (~C35_Invalid /\ pc # "received") =>
          /\ participants = request.participants
          /\ max_rounds = request.num_rounds

C35_Witness ==
    /\ pc = "rejected_request"
    /\ request.parsed
    /\ request.keys = required_config_keys
    /\ Len(request.participants) = 2

====
